---- MODULE Spec2Model ----
(***************************************************************************)
(* Model of the Voxtral speech-to-text skill (src/__init__.py).            *)
(*                                                                         *)
(* The skill is sequential: one method call runs start to finish.  The     *)
(* state is the environment the skill reads (which files exist, what the   *)
(* external programs do when they are run) and the record of the last      *)
(* call: its arguments, what it returned or raised, and the log of the     *)
(* subprocess.run invocations and recorder calls it made.  Strings are     *)
(* TLA+ strings; lower(), strip() and the `in` test are computed           *)
(* character by character.                                                 *)
(***************************************************************************)
EXTENDS Integers, Sequences, FiniteSets, TLC

VARIABLES
    binExists,    \* self.voxtral_bin.exists()
    modelExists,  \* self.voxtral_model.exists()
    soxOnPath,    \* sox resolvable on the executable search path
    whichOnPath,  \* the `which` program itself can be launched
    recProc,      \* what `rec` does when run: outcome and size of the output file (-1: no file)
    trProc,       \* what `voxtral -i` does when run: outcome, stdout, stderr
    micProc,      \* what `voxtral --from-mic` does when run: outcome, stdout
    pc,           \* "idle": no call in progress; "done": the last call has returned or raised
    call          \* the last call: op, arguments, result and log

vars == <<binExists, modelExists, soxOnPath, whichOnPath, recProc, trProc, micProc, pc, call>>

(***************************************************************************)
(* Program constants.                                                      *)
(***************************************************************************)
VOXTRAL_BIN == "~/.openclaw/workspace/voxtral.c/voxtral"
VOXTRAL_MODEL == "~/.openclaw/workspace/voxtral.c/voxtral-model"
DefaultDuration == 10
DefaultTimeout == 15
QuickDuration == 5
LongDuration == 20
TimeoutSlack == 5
MinRecordingBytes == 1000
TranscribeTimeout == 120
MicTimeout == 60

(***************************************************************************)
(* Bounds of the model.                                                    *)
(***************************************************************************)
\* file sizes range over MinRecordingBytes - SizeSpread .. MinRecordingBytes + SizeSpread
SizeSpread == 1

(***************************************************************************)
(* str.lower(), str.strip() and the substring test, on ASCII strings.      *)
(***************************************************************************)
UpperChars == "ABCDEFGHIJKLMNOPQRSTUVWXYZ"
LowerChars == "abcdefghijklmnopqrstuvwxyz"

LowerChar(c) ==
    IF \E i \in 1..26 : SubSeq(UpperChars, i, i) = c
    THEN LET i == CHOOSE j \in 1..26 : SubSeq(UpperChars, j, j) = c
         IN  SubSeq(LowerChars, i, i)
    ELSE c

RECURSIVE lower(_)
lower(s) ==
    IF Len(s) = 0 THEN ""
    ELSE LowerChar(SubSeq(s, 1, 1)) \o lower(SubSeq(s, 2, Len(s)))

IsSpace(c) == c \in {" ", "\n", "\t", "\r"}

RECURSIVE lstrip(_)
lstrip(s) ==
    IF Len(s) > 0 /\ IsSpace(SubSeq(s, 1, 1)) THEN lstrip(SubSeq(s, 2, Len(s))) ELSE s

RECURSIVE rstrip(_)
rstrip(s) ==
    IF Len(s) > 0 /\ IsSpace(SubSeq(s, Len(s), Len(s)))
    THEN rstrip(SubSeq(s, 1, Len(s) - 1)) ELSE s

strip(s) == rstrip(lstrip(s))

\* Python's `sub in s`
Contains(s, sub) ==
    \E i \in 1..(Len(s) - Len(sub) + 1) : SubSeq(s, i, i + Len(sub) - 1) = sub

(***************************************************************************)
(* Log entries: a subprocess.run invocation ("which", "rec",               *)
(* "voxtral_file", "voxtral_mic"; b is the timeout passed, 0 for none), a  *)
(* call of the recorder ("record_audio": a the duration, b the timeout     *)
(* argument) or its return ("record_audio_path", "record_audio_none").     *)
(***************************************************************************)
Ev(name, a, b) == [ev |-> name, a |-> a, b |-> b]

Result(kind, val, log) == [kind |-> kind, val |-> val, log |-> log]

(***************************************************************************)
(* get_help: the static help text (emoji and markup left out).             *)
(***************************************************************************)
get_help ==
    "\nVoxtral Voice Input Skill\n\nCommands:\n"
    \o "- voice: record my message - Record audio and transcribe\n"
    \o "- voice: quick record - Quick 5-second recording\n"
    \o "- voice: long record - Extended 20-second recording\n"
    \o "- voice: transcribe - Show transcription help\n"
    \o "- voice: help - Show this help\n"
    \o "\nRequirements:\n"
    \o "- sox (brew install sox)\n"
    \o "- Voxtral at ~/.openclaw/workspace/voxtral.c/voxtral\n"
    \o "- Voxtral model at ~/.openclaw/workspace/voxtral.c/voxtral-model\n"
    \o "\nNote: For direct microphone access, you can also run:\n"
    \o "cd ~/.openclaw/workspace/voxtral.c && ./voxtral -d voxtral-model --from-mic\n"

(***************************************************************************)
(* _check_dependencies: binary, then model, then `which sox`.  Only        *)
(* CalledProcessError (a non-zero exit of which) is caught: a failure to   *)
(* launch which propagates.  kind is "ok", "fail" or "raise"; val is the   *)
(* message, or the exception raised.                                       *)
(***************************************************************************)
check_dependencies ==
    IF ~binExists
    THEN Result("fail", "Voxtral binary not found at " \o VOXTRAL_BIN, <<>>)
    ELSE IF ~modelExists
    THEN Result("fail", "Voxtral model not found at " \o VOXTRAL_MODEL, <<>>)
    ELSE IF ~whichOnPath
    THEN Result("raise", "FileNotFoundError", <<Ev("which", 0, 0)>>)
    ELSE IF ~soxOnPath
    THEN Result("fail", "sox not found. Install with: brew install sox", <<Ev("which", 0, 0)>>)
    ELSE Result("ok", "OK", <<Ev("which", 0, 0)>>)

(***************************************************************************)
(* _record_audio.  The first statement takes .stat() of a str literal,     *)
(* which raises AttributeError before the try block is entered.            *)
(***************************************************************************)
TimestampExpr == "AttributeError"

\* the timeout handed to subprocess.run for rec
RecWallClock(timeout) == timeout + TimeoutSlack

\* the output file passes the validity test
ValidRecording(size) == size >= 0 /\ size > MinRecordingBytes

record_audio(duration, timeout) ==
    LET entry  == Ev("record_audio", duration, timeout)
        launch == Ev("rec", duration, RecWallClock(timeout))
    IN  IF TimestampExpr # "ok"
        THEN Result("raise", TimestampExpr, <<entry>>)
        ELSE IF recProc.outcome \in {"timeout", "launch_error"}
        THEN Result("none", "", <<entry, launch, Ev("record_audio_none", 0, 0)>>)
        ELSE IF ValidRecording(recProc.size)
        THEN Result("path", "recording.wav", <<entry, launch, Ev("record_audio_path", 0, 0)>>)
        ELSE Result("none", "", <<entry, launch, Ev("record_audio_none", 0, 0)>>)

(***************************************************************************)
(* _transcribe_file(audio_file); exists is audio_file.exists().            *)
(***************************************************************************)
LaunchErrorText == "[Errno 2] No such file or directory"

\* TranscribeOutput without the trimming of the captured streams
TranscribeOutput_NoStrip(p) ==
    IF p.outcome = "exit0" THEN p.stdout
    ELSE "Transcription error: " \o (IF p.stderr # "" THEN p.stderr ELSE "Unknown error")

TranscribeOutput(p) ==
    IF p.outcome = "exit0" THEN strip(p.stdout)
    ELSE "Transcription error: "
         \o (IF p.stderr # "" THEN strip(p.stderr) ELSE "Unknown error")

transcribe_file(exists) ==
    LET launch == Ev("voxtral_file", 0, TranscribeTimeout)
    IN  IF ~exists
        THEN Result("str", "Error: Audio file not found", <<>>)
        ELSE IF trProc.outcome = "timeout"
        THEN Result("str", "Transcription timed out", <<launch>>)
        ELSE IF trProc.outcome = "launch_error"
        THEN Result("str", "Transcription error: " \o LaunchErrorText, <<launch>>)
        ELSE Result("str", TranscribeOutput(trProc), <<launch>>)

(***************************************************************************)
(* _transcribe_mic_realtime.                                               *)
(***************************************************************************)
transcribe_mic_realtime ==
    LET launch == Ev("voxtral_mic", 0, MicTimeout)
        text   == CASE micProc.outcome = "exit0" -> strip(micProc.stdout)
                    [] micProc.outcome = "nonzero" ->
                           "Microphone transcription was interrupted or failed."
                    [] micProc.outcome = "timeout" -> "Recording timed out (max 60 seconds)"
                    [] micProc.outcome = "interrupt" -> "Recording cancelled by user"
                    [] OTHER -> "Microphone error: " \o LaunchErrorText
    IN  Result("str", text, <<launch>>)

(***************************************************************************)
(* process_command.                                                        *)
(***************************************************************************)
ErrorPrefix == "X "
TranscribedLabel == "Transcribed:\n\n"
HelpAliases == {"help", "--help", "-h", "usage"}

Normalize(command) == strip(lower(command))

\* SelectDuration with the two keyword tests in the other order
SelectDuration_LongFirst(cmd) ==
    IF Contains(cmd, "long") THEN LongDuration
    ELSE IF Contains(cmd, "quick") THEN QuickDuration
    ELSE DefaultDuration

SelectDuration(cmd) ==
    IF Contains(cmd, "quick") THEN QuickDuration
    ELSE IF Contains(cmd, "long") THEN LongDuration
    ELSE DefaultDuration

\* the record-and-transcribe branch; the timeout of _record_audio is left at its default
RecordAndTranscribe(cmd, log) ==
    LET rec == record_audio(SelectDuration(cmd), DefaultTimeout)
    IN  IF rec.kind = "raise"
        THEN Result("raise", rec.val, log \o rec.log)
        ELSE IF rec.kind = "path"
        THEN LET tr == transcribe_file(TRUE)
             IN  Result("str", TranscribedLabel \o tr.val, log \o rec.log \o tr.log)
        ELSE LET mic == transcribe_mic_realtime
             IN  Result("str", mic.val, log \o rec.log \o mic.log)

\* the branches after the dependency check
Dispatch(cmd, log) ==
    IF cmd \in HelpAliases
    THEN Result("str", get_help, log)
    ELSE IF Contains(cmd, "record") \/ Contains(cmd, "voice")
    THEN RecordAndTranscribe(cmd, log)
    ELSE IF Contains(cmd, "transcribe")
    THEN Result("str", "Use 'voice: record my message' to record and transcribe.", log)
    ELSE Result("str", get_help, log)

\* process_command going on to the dispatch whatever the dependency check said
process_command_NoGate(command) ==
    Dispatch(Normalize(command), check_dependencies.log)

process_command(command) ==
    LET cmd == Normalize(command)
        dep == check_dependencies
    IN  IF dep.kind = "raise" THEN Result("raise", dep.val, dep.log)
        ELSE IF dep.kind = "fail" THEN Result("str", ErrorPrefix \o dep.val, dep.log)
        ELSE Dispatch(cmd, dep.log)

(***************************************************************************)
(* The state machine.  The environment changes between calls; a call runs  *)
(* to its end in one step and leaves its record in `call`.                 *)
(***************************************************************************)
Outcomes == {"exit0", "nonzero", "timeout", "launch_error"}

FileSizes == {-1} \cup ((MinRecordingBytes - SizeSpread)..(MinRecordingBytes + SizeSpread))

RecProcs == [outcome : Outcomes, size : FileSizes]

TrProcs ==
    [outcome : {"exit0"}, stdout : {"hello world", "  hello world\n", ""}, stderr : {""}]
    \cup [outcome : {"nonzero"}, stdout : {""}, stderr : {"", "model load failed\n", "\n"}]
    \cup [outcome : {"timeout", "launch_error"}, stdout : {""}, stderr : {""}]

MicProcs ==
    [outcome : {"exit0"}, stdout : {" hi there \n", ""}]
    \cup [outcome : {"nonzero", "timeout", "interrupt", "launch_error"}, stdout : {""}]

Commands ==
    { "help", " HELP \n", "--help", "-h", "usage", "voice: help", "help me record",
      "record my message", "Voice: Quick Record", "long record", "quick long voice",
      "recording belongs here", "voice: transcribe", "transcribe", "hello", "" }

Durations == {QuickDuration, DefaultDuration, LongDuration}
Timeouts == {DefaultTimeout, LongDuration + TimeoutSlack}

NoCall ==
    [op |-> "none", cmd |-> "", duration |-> 0, timeout |-> 0, exists |-> FALSE,
     kind |-> "none", val |-> "", log |-> <<>>]

Called(op, cmd, duration, timeout, exists, res) ==
    [op |-> op, cmd |-> cmd, duration |-> duration, timeout |-> timeout, exists |-> exists,
     kind |-> res.kind, val |-> res.val, log |-> res.log]

Init ==
    /\ binExists = FALSE
    /\ modelExists = FALSE
    /\ soxOnPath = FALSE
    /\ whichOnPath = TRUE
    /\ recProc = [outcome |-> "exit0", size |-> -1]
    /\ trProc = [outcome |-> "exit0", stdout |-> "", stderr |-> ""]
    /\ micProc = [outcome |-> "exit0", stdout |-> ""]
    /\ pc = "idle"
    /\ call = NoCall

\* the environment: files appear and disappear, programs behave differently
SetBinary ==
    /\ pc = "idle"
    /\ \E b \in BOOLEAN : binExists' = b
    /\ UNCHANGED <<modelExists, soxOnPath, whichOnPath, recProc, trProc, micProc, pc, call>>

SetModel ==
    /\ pc = "idle"
    /\ \E b \in BOOLEAN : modelExists' = b
    /\ UNCHANGED <<binExists, soxOnPath, whichOnPath, recProc, trProc, micProc, pc, call>>

SetSox ==
    /\ pc = "idle"
    /\ \E b \in BOOLEAN : soxOnPath' = b
    /\ UNCHANGED <<binExists, modelExists, whichOnPath, recProc, trProc, micProc, pc, call>>

SetWhich ==
    /\ pc = "idle"
    /\ \E b \in BOOLEAN : whichOnPath' = b
    /\ UNCHANGED <<binExists, modelExists, soxOnPath, recProc, trProc, micProc, pc, call>>

SetRecorder ==
    /\ pc = "idle"
    /\ \E p \in RecProcs : recProc' = p
    /\ UNCHANGED <<binExists, modelExists, soxOnPath, whichOnPath, trProc, micProc, pc, call>>

SetTranscriber ==
    /\ pc = "idle"
    /\ \E p \in TrProcs : trProc' = p
    /\ UNCHANGED <<binExists, modelExists, soxOnPath, whichOnPath, recProc, micProc, pc, call>>

SetMicrophone ==
    /\ pc = "idle"
    /\ \E p \in MicProcs : micProc' = p
    /\ UNCHANGED <<binExists, modelExists, soxOnPath, whichOnPath, recProc, trProc, pc, call>>

env == <<binExists, modelExists, soxOnPath, whichOnPath, recProc, trProc, micProc>>

\* the calls
ProcessCommand ==
    /\ pc = "idle"
    /\ \E c \in Commands :
           call' = Called("process_command", c, 0, 0, FALSE, process_command(c))
    /\ pc' = "done"
    /\ UNCHANGED env

CheckDependencies ==
    /\ pc = "idle"
    /\ call' = Called("check_dependencies", "", 0, 0, FALSE, check_dependencies)
    /\ pc' = "done"
    /\ UNCHANGED env

RecordAudio ==
    /\ pc = "idle"
    /\ \E d \in Durations, t \in Timeouts :
           call' = Called("record_audio", "", d, t, FALSE, record_audio(d, t))
    /\ pc' = "done"
    /\ UNCHANGED env

TranscribeFile ==
    /\ pc = "idle"
    /\ \E x \in BOOLEAN :
           call' = Called("transcribe_file", "", 0, 0, x, transcribe_file(x))
    /\ pc' = "done"
    /\ UNCHANGED env

TranscribeMicRealtime ==
    /\ pc = "idle"
    /\ call' = Called("transcribe_mic_realtime", "", 0, 0, FALSE, transcribe_mic_realtime)
    /\ pc' = "done"
    /\ UNCHANGED env

GetHelp ==
    /\ pc = "idle"
    /\ call' = Called("get_help", "", 0, 0, FALSE, Result("str", get_help, <<>>))
    /\ pc' = "done"
    /\ UNCHANGED env

\* the caller takes the result; the next call can start
Return ==
    /\ pc = "done"
    /\ pc' = "idle"
    /\ call' = NoCall
    /\ UNCHANGED env

Next ==
    \/ SetBinary \/ SetModel \/ SetSox \/ SetWhich
    \/ SetRecorder \/ SetTranscriber \/ SetMicrophone
    \/ ProcessCommand \/ CheckDependencies \/ RecordAudio
    \/ TranscribeFile \/ TranscribeMicRealtime \/ GetHelp
    \/ Return

Spec == Init /\ [][Next]_vars

(***************************************************************************)
(* Vocabulary of the properties.                                           *)
(***************************************************************************)
Done(op) == pc = "done" /\ call.op = op

Count(log, name) == Cardinality({i \in DOMAIN log : log[i].ev = name})

ProcessNames == {"which", "rec", "voxtral_file", "voxtral_mic"}

Launches(log) == Cardinality({i \in DOMAIN log : log[i].ev \in ProcessNames})

\* the three checks are met: both files exist and `which sox` succeeds
DepsSatisfied == binExists /\ modelExists /\ whichOnPath /\ soxOnPath

FirstUnmetMessage ==
    IF ~binExists THEN "Voxtral binary not found at " \o VOXTRAL_BIN
    ELSE IF ~modelExists THEN "Voxtral model not found at " \o VOXTRAL_MODEL
    ELSE "sox not found. Install with: brew install sox"

IsRecordCommand(c) ==
    /\ Normalize(c) \notin HelpAliases
    /\ Contains(Normalize(c), "record") \/ Contains(Normalize(c), "voice")

ExpectedDuration(c) ==
    IF Contains(Normalize(c), "quick") THEN 5
    ELSE IF Contains(Normalize(c), "long") THEN 20
    ELSE 10

\* the recording cannot yield a valid file
RecordingFails ==
    \/ recProc.outcome \in {"timeout", "launch_error"}
    \/ recProc.size <= 1000

(***************************************************************************)
(* C1: process_command always returns a response string; no exception      *)
(* propagates to its caller, whatever the command and whatever the         *)
(* dependency check, the recorder, the transcriber and the fallback do.    *)
(***************************************************************************)
C1_AlwaysReturnsString == Done("process_command") => call.kind = "str"

(***************************************************************************)
(* C2: when the binary, the model or the recording utility is missing,     *)
(* process_command returns the error-prefixed message of the first unmet   *)
(* check and never launches the recorder, the file transcriber or the      *)
(* fallback; with the binary missing it launches no process at all.        *)
(***************************************************************************)
C2_DependencyCheckFirst ==
    (Done("process_command") /\ ~DepsSatisfied) =>
        /\ call.kind = "str"
        /\ call.val = ErrorPrefix \o FirstUnmetMessage
        /\ \A i \in DOMAIN call.log : call.log[i].ev = "which"
        /\ ~binExists => call.log = <<>>

\* the part of C2 about launches alone: with an unmet check nothing but which is run
C2_NoActionWhenUnmet ==
    (Done("process_command") /\ ~DepsSatisfied) =>
        /\ \A i \in DOMAIN call.log : call.log[i].ev = "which"
        /\ (~binExists \/ ~modelExists) => call.log = <<>>

(***************************************************************************)
(* C3: with dependencies satisfied and a command containing "record" or    *)
(* "voice", a failed recording makes process_command run the realtime      *)
(* fallback exactly once and return the fallback's result, without         *)
(* raising.                                                                *)
(***************************************************************************)
C3_FallbackOnRecordingFailure ==
    (Done("process_command") /\ DepsSatisfied /\ IsRecordCommand(call.cmd) /\ RecordingFails) =>
        /\ call.kind = "str"
        /\ Count(call.log, "voxtral_mic") = 1
        /\ call.val = transcribe_mic_realtime.val

C5_HelpEverywhere ==
    (/\ Done("process_command") /\ DepsSatisfied
     /\ \E a \in HelpAliases : Contains(Normalize(call.cmd), a)) =>
        /\ call.kind = "str"
        /\ call.val = get_help
        /\ \A i \in DOMAIN call.log : call.log[i].ev = "which"

(***************************************************************************)
(* C6: for each recording process_command starts, the wall-clock bound of  *)
(* the recorder process is the selected maximum duration plus 5 seconds,   *)
(* so always strictly greater than the maximum duration.                   *)
(***************************************************************************)
C6_TimeoutIsDurationPlusFive ==
    Done("process_command") =>
        \A i \in DOMAIN call.log :
            call.log[i].ev = "record_audio" =>
                /\ RecWallClock(call.log[i].b) = call.log[i].a + 5
                /\ RecWallClock(call.log[i].b) > call.log[i].a

(***************************************************************************)
(* C7: after the recorder process has completed, record_audio returns the  *)
(* output path if and only if the file exists and is larger than 1000      *)
(* bytes, and an absent result otherwise.                                  *)
(***************************************************************************)
C7_PathIffValidFile ==
    (Done("record_audio") /\ recProc.outcome = "exit0") =>
        /\ call.kind \in {"path", "none"}
        /\ call.kind = "path" <=> (recProc.size >= 0 /\ recProc.size > 1000)

(***************************************************************************)
(* C8: when the recorder process cannot be launched, exits non-zero or     *)
(* times out, record_audio returns an absent result: never a path, never   *)
(* an exception, whatever file is at the output path.                      *)
(***************************************************************************)
C8_FailureIsAbsent ==
    (Done("record_audio") /\ recProc.outcome \in {"launch_error", "nonzero", "timeout"}) =>
        call.kind = "none"

(***************************************************************************)
(* C9: transcribe_file never raises; without the audio file it returns an  *)
(* error string and runs nothing; otherwise it runs the transcriber once   *)
(* and returns the trimmed standard output on exit 0, an error string      *)
(* with the trimmed error output (or "Unknown error" when there is none)   *)
(* on a non-zero exit, and the fixed message on timeout.                   *)
(***************************************************************************)
C9_TranscribeFileResult ==
    Done("transcribe_file") =>
        /\ call.kind = "str"
        /\ ~call.exists =>
               call.val = "Error: Audio file not found" /\ call.log = <<>>
        /\ call.exists =>
               /\ Launches(call.log) = 1 /\ Count(call.log, "voxtral_file") = 1
               /\ trProc.outcome = "exit0" =>
                      /\ call.val = strip(trProc.stdout)
                      /\ Contains(trProc.stdout, call.val)
                      /\ call.val = "" \/ ~IsSpace(SubSeq(call.val, 1, 1))
                      /\ call.val = "" \/ ~IsSpace(SubSeq(call.val, Len(call.val), Len(call.val)))
               /\ (trProc.outcome = "nonzero" /\ trProc.stderr = "") =>
                      call.val = "Transcription error: Unknown error"
               /\ (trProc.outcome = "nonzero" /\ trProc.stderr # "") =>
                      call.val = "Transcription error: " \o strip(trProc.stderr)
               /\ trProc.outcome = "timeout" => call.val = "Transcription timed out"

C9_Witness ==
    /\ Done("transcribe_file") /\ call.exists
    /\ trProc.outcome = "exit0" /\ trProc.stdout = "  hello world\n"
    /\ call.val = "hello world"

\* the non-zero exit of C9 in a concrete case
C9_WitnessNonZero ==
    /\ Done("transcribe_file") /\ call.exists
    /\ trProc.outcome = "nonzero" /\ trProc.stderr = "model load failed\n"
    /\ call.val = "Transcription error: model load failed"

====
